---- MODULE Spec2Model ----
(***************************************************************************)
(* Model of examples/batch-processor.py: DrupalContentBatchProcessor.      *)
(* One fetch_items(count, options) call is followed from the probe request *)
(* to the returned dictionary or the raised exception.  The remote server  *)
(* is the environment: every HTTP exchange is a request step followed by a *)
(* response step whose JSON body is chosen nondeterministically.           *)
(***************************************************************************)
EXTENDS Integers, Sequences, FiniteSets, TLC

\* ---------------------------------------------------------------- bounds
MaxCount == 3          \* counts range over -MaxCount..MaxCount
MaxPageSize == 3       \* page sizes range over 1..MaxPageSize
MaxTotalPages == 3     \* totalPages reported by the probe: 0..MaxTotalPages
MaxItems == 2          \* a page body carries 0..MaxItems items (or `limit`)

\* ------------------------------------------------ constants of the source
DefaultPageSize == 50  \* options.get('pageSize', 50)
DemoTotalPages == 46   \* total_pages = 46
DemoCount == 75        \* items_needed = 75 / fetch_items(75, ...)
DemoPageSize == 50     \* page_size = 50 / 'pageSize': 50
ProbePage == 1         \* fetch_content_page(1, 1, content_type)
ProbeLimit == 1
StrLen == 2            \* len() of the non-list, sized content value "ab"

VARIABLES pc, count, page_size, on_progress, requests, responses, pagination,
          pages_needed, actual_pages, page, data, results, progress, result,
          error

vars == <<pc, count, page_size, on_progress, requests, responses, pagination,
          pages_needed, actual_pages, page, data, results, progress, result,
          error>>

Min(a, b) == IF a <= b THEN a ELSE b
Max(a, b) == IF a >= b THEN a ELSE b

\* ------------------------------------------------------- JSON body shapes
\* The value under the 'content' key of a body.  kind is one of
\*   "list"   a JSON array of items, each item tagged <<page, index>>
\*   "absent" the key is missing
\*   "null"   the key is present with value null
\*   "string" a non-list value that has a length (e.g. "ab")
\*   "number" a non-list, non-zero value without a length (e.g. 5)
ListContent(p, n) == [kind |-> "list", items |-> [k \in 1..n |-> <<p, k>>]]
AbsentContent == [kind |-> "absent", items |-> <<>>]
NullContent == [kind |-> "null", items |-> <<>>]
StringContent == [kind |-> "string", items |-> <<>>]
NumberContent == [kind |-> "number", items |-> <<>>]

NoPagination == [present |-> FALSE, totalPages |-> 0, totalItems |-> 0,
                 hasNextPage |-> FALSE]

NoError == "None"
Unknown_error == "Unknown error"

ItemCounts(limit) == (0..MaxItems) \cup {limit}

\* Bodies the server may send for a content page p requested with `limit`.
\* A body with success=false carries an optional error string and no content.
PageBodies(p, limit) ==
    { [success |-> TRUE, error |-> NoError, content |-> c,
       pagination |-> NoPagination] :
         c \in { ListContent(p, n) : n \in ItemCounts(limit) }
               \cup {AbsentContent, NullContent, StringContent, NumberContent} }
    \cup
    { [success |-> FALSE, error |-> e, content |-> AbsentContent,
       pagination |-> NoPagination] : e \in {"server error", NoError} }

TotalPagesSet == (0..MaxTotalPages) \cup {DemoTotalPages}

\* Bodies the server may send for the probe (page 1, limit 1); probe items are
\* tagged with page 0 so that their provenance stays visible.
ProbeBodies ==
    { [success |-> TRUE, error |-> NoError, content |-> c,
       pagination |-> [present |-> TRUE, totalPages |-> tp, totalItems |-> tp,
                       hasNextPage |-> (tp > 1)]] :
         tp \in TotalPagesSet,
         c \in {ListContent(0, 1), NumberContent} }
    \cup
    { [success |-> FALSE, error |-> "server error", content |-> AbsentContent,
       pagination |-> [present |-> TRUE, totalPages |-> tp, totalItems |-> tp,
                       hasNextPage |-> (tp > 1)]] :
         tp \in TotalPagesSet }
    \cup
    { [success |-> TRUE, error |-> NoError, content |-> AbsentContent,
       pagination |-> NoPagination],
      [success |-> FALSE, error |-> "server error", content |-> AbsentContent,
       pagination |-> NoPagination] }

\* ------------------------------------------------------ Python primitives
\* bool(data.get('content'))
Truthy(c) ==
    CASE c.kind = "list" -> Len(c.items) > 0
      [] c.kind = "absent" -> FALSE
      [] c.kind = "null" -> FALSE
      [] c.kind = "string" -> TRUE
      [] OTHER -> TRUE

\* whether len(data.get('content', [])) raises TypeError
LenRaises(c) == c.kind \in {"null", "number"}

\* len(data.get('content', [])) where it is defined
ContentLen(c) ==
    CASE c.kind = "list" -> Len(c.items)
      [] c.kind = "absent" -> 0
      [] c.kind = "string" -> StrLen
      [] OTHER -> 0

\* Python floor division a // b for b > 0
FloorDiv(a, b) == a \div b

\* variant: no trimming
Slice_noTrim(s, n) == s

\* Python slice s[:n]
Slice(s, n) ==
    IF n >= 0 THEN SubSeq(s, 1, Min(n, Len(s)))
    ELSE SubSeq(s, 1, Max(Len(s) + n, 0))

\* ------------------------------------------------------------ operations
\* fetch_content_page, line 39: content_count is computed with len() only
\* when the content value is truthy.
FetchPageRaises(body) == Truthy(body.content) /\ LenRaises(body.content)

\* variant: a missing pagination block is read as one page
PaginationInfo_defaultOne(first_page) ==
    IF first_page.pagination.present
    THEN [totalPages |-> first_page.pagination.totalPages,
          totalItems |-> first_page.pagination.totalItems,
          hasNextPage |-> first_page.pagination.hasNextPage]
    ELSE [totalPages |-> 1, totalItems |-> 0, hasNextPage |-> FALSE]

\* get_pagination_info, lines 46-52
PaginationInfo(first_page) ==
    IF first_page.pagination.present
    THEN [totalPages |-> first_page.pagination.totalPages,
          totalItems |-> first_page.pagination.totalItems,
          hasNextPage |-> first_page.pagination.hasNextPage]
    ELSE [totalPages |-> 0, totalItems |-> 0, hasNextPage |-> FALSE]

\* variant: floor instead of ceiling division
PagesNeeded_floor(c, ps) == FloorDiv(c, ps)

\* fetch_items, line 70
PagesNeeded(c, ps) == FloorDiv(c + ps - 1, ps)

\* variant: the page plan ignores the probe's totalPages
ActualPages_ignoreTotal(pn, tp) == pn

\* fetch_items, line 71
ActualPages(pn, tp) == Min(pn, tp)

\* variant: the success flag of a page is not inspected
NotSuccess_never(d) == FALSE

\* fetch_items, line 80
NotSuccess(d) == ~d.success

\* fetch_items, line 81
ErrorMsg(d) == IF d.error = NoError THEN Unknown_error ELSE d.error

\* fetch_items, line 82: the exception text carries the page and the message
FetchError(p, msg) == [kind |-> "Exception", page |-> p, msg |-> msg]

\* fetch_items, line 97
ValidContent(r) == Truthy(r.content) /\ r.content.kind = "list"

\* variant: pages are concatenated last page first
RECURSIVE AllContent_rev(_)
AllContent_rev(rs) ==
    IF rs = <<>> THEN <<>>
    ELSE LET r == Head(rs)
         IN AllContent_rev(Tail(rs))
            \o (IF ValidContent(r) THEN r.content.items ELSE <<>>)

\* fetch_items, lines 95-100
RECURSIVE AllContent(_)
AllContent(rs) ==
    IF rs = <<>> THEN <<>>
    ELSE LET r == Head(rs)
         IN (IF ValidContent(r) THEN r.content.items ELSE <<>>)
            \o AllContent(Tail(rs))

\* fetch_items, lines 102-112
MakeResult(rs, c, pg) ==
    LET all_content == AllContent(rs)
        final_content == Slice(all_content, c)
    IN [content |-> final_content,
        totalFetched |-> Len(all_content),
        requested |-> c,
        actual |-> Len(final_content),
        pagesFetched |-> Len(rs),
        pagination |-> pg]

NoData == [success |-> FALSE, error |-> NoError, content |-> AbsentContent,
           pagination |-> NoPagination]
NoInfo == [totalPages |-> 0, totalItems |-> 0, hasNextPage |-> FALSE]

\* ------------------------------------------------------------------ Init
Init ==
    /\ pc = "start"
    /\ \/ /\ count \in (-MaxCount)..MaxCount
          /\ page_size \in (1..MaxPageSize) \cup {DefaultPageSize}
       \/ /\ count = DemoCount
          /\ page_size = DemoPageSize
    /\ on_progress \in BOOLEAN
    /\ requests = <<>>
    /\ responses = <<>>
    /\ pagination = NoInfo
    /\ pages_needed = 0
    /\ actual_pages = 0
    /\ page = 0
    /\ data = NoData
    /\ results = <<>>
    /\ progress = <<>>
    /\ result = <<>>
    /\ error = <<>>

\* --------------------------------------------------------------- actions
\* line 66 -> line 45 -> lines 24-35: the probe GET is sent
ProbeRequest ==
    /\ pc = "start"
    /\ requests' = Append(requests, [page |-> ProbePage, limit |-> ProbeLimit])
    /\ pc' = "probe_wait"
    /\ UNCHANGED <<count, page_size, on_progress, responses, pagination,
                   pages_needed, actual_pages, page, data, results, progress,
                   result, error>>

\* lines 35-41 and 46-52: the probe body arrives and is turned into the
\* pagination dictionary
ProbeResponse ==
    /\ pc = "probe_wait"
    /\ \E body \in ProbeBodies :
         /\ ~FetchPageRaises(body)
         /\ responses' = Append(responses, body)
         /\ pagination' = PaginationInfo(body)
    /\ pc' = "plan"
    /\ UNCHANGED <<count, page_size, on_progress, requests, pages_needed,
                   actual_pages, page, data, results, progress, result, error>>

\* line 36 raise_for_status (no body is read), or line 39 len() of a value
\* without a length: the exception propagates out of fetch_items
ProbeRaises ==
    /\ pc = "probe_wait"
    /\ \/ /\ error' = <<[kind |-> "HTTPError", page |-> 0, msg |-> NoError]>>
          /\ UNCHANGED responses
       \/ \E body \in ProbeBodies :
            /\ FetchPageRaises(body)
            /\ responses' = Append(responses, body)
            /\ error' = <<[kind |-> "TypeError", page |-> 0, msg |-> NoError]>>
    /\ pc' = "failed"
    /\ UNCHANGED <<count, page_size, on_progress, requests, pagination,
                   pages_needed, actual_pages, page, data, results, progress,
                   result>>

\* lines 69-76
PlanPages ==
    /\ pc = "plan"
    /\ pages_needed' = PagesNeeded(count, page_size)
    /\ actual_pages' = ActualPages(PagesNeeded(count, page_size),
                                   pagination.totalPages)
    /\ page' = 1
    /\ pc' = "loop"
    /\ UNCHANGED <<count, page_size, on_progress, requests, responses,
                   pagination, data, results, progress, result, error>>

\* line 77 (loop continues) and line 79 -> lines 24-35: the GET for `page`
PageRequest ==
    /\ pc = "loop"
    /\ page <= actual_pages
    /\ requests' = Append(requests, [page |-> page, limit |-> page_size])
    /\ pc' = "page_wait"
    /\ UNCHANGED <<count, page_size, on_progress, responses, pagination,
                   pages_needed, actual_pages, page, data, results, progress,
                   result, error>>

\* lines 35-41: fetch_content_page returns the body
PageResponse ==
    /\ pc = "page_wait"
    /\ \E body \in PageBodies(page, page_size) :
         /\ ~FetchPageRaises(body)
         /\ responses' = Append(responses, body)
         /\ data' = body
    /\ pc' = "page_check"
    /\ UNCHANGED <<count, page_size, on_progress, requests, pagination,
                   pages_needed, actual_pages, page, results, progress, result,
                   error>>

\* line 36 or line 39 raises inside fetch_content_page; lines 90-92 re-raise
PageRaises ==
    /\ pc = "page_wait"
    /\ \/ /\ error' = <<[kind |-> "HTTPError", page |-> page, msg |-> NoError]>>
          /\ UNCHANGED responses
       \/ \E body \in PageBodies(page, page_size) :
            /\ FetchPageRaises(body)
            /\ responses' = Append(responses, body)
            /\ error' = <<[kind |-> "TypeError", page |-> page,
                           msg |-> NoError]>>
    /\ pc' = "failed"
    /\ UNCHANGED <<count, page_size, on_progress, requests, pagination,
                   pages_needed, actual_pages, page, data, results, progress,
                   result>>

\* lines 80-92: success check, progress callback, results.append
PageCheck ==
    /\ pc = "page_check"
    /\ IF NotSuccess(data)
       THEN /\ error' = <<FetchError(page, ErrorMsg(data))>>
            /\ pc' = "failed"
            /\ UNCHANGED <<progress, results, page>>
       ELSE IF on_progress /\ LenRaises(data.content)
       THEN /\ error' = <<[kind |-> "TypeError", page |-> page,
                           msg |-> NoError]>>
            /\ pc' = "failed"
            /\ UNCHANGED <<progress, results, page>>
       ELSE /\ progress' = IF on_progress
                           THEN Append(progress, <<page, actual_pages,
                                                   ContentLen(data.content)>>)
                           ELSE progress
            /\ results' = Append(results, data)
            /\ page' = page + 1
            /\ pc' = "loop"
            /\ UNCHANGED error
    /\ UNCHANGED <<count, page_size, on_progress, requests, responses,
                   pagination, pages_needed, actual_pages, data, result>>

\* line 77 (range exhausted) and lines 94-112
Aggregate ==
    /\ pc = "loop"
    /\ page > actual_pages
    /\ result' = <<MakeResult(results, count, pagination)>>
    /\ pc' = "done"
    /\ UNCHANGED <<count, page_size, on_progress, requests, responses,
                   pagination, pages_needed, actual_pages, page, data, results,
                   progress, error>>

Next ==
    \/ ProbeRequest
    \/ ProbeResponse
    \/ ProbeRaises
    \/ PlanPages
    \/ PageRequest
    \/ PageResponse
    \/ PageRaises
    \/ PageCheck
    \/ Aggregate

Spec == Init /\ [][Next]_vars

\* ======================================================================
\* Properties
\* ======================================================================

\* lines 69-71 have been executed in this call
Planned ==
    \/ pc \in {"loop", "page_wait", "page_check", "done"}
    \/ pc = "failed" /\ error[1].page >= 1

\* ceil(a / b) for b > 0, by its defining inequality
Ceil(a, b) == CHOOSE q \in (-(Max(a, -a)) - 1)..(Max(a, -a) + 1) :
                 q * b >= a /\ (q - 1) * b < a

Done == pc = "done"
Failed == pc = "failed"
ZeroInfo == [totalPages |-> 0, totalItems |-> 0, hasNextPage |-> FALSE]

\* items <<p, k>> compared in fetch order: by page, then by index in the page
Before(x, y) == x[1] < y[1] \/ (x[1] = y[1] /\ x[2] < y[2])

\* the items of the list-shaped content arrays of the content pages received
\* so far (responses[1] is the probe)
FetchedItems ==
    UNION { { responses[i].content.items[k] :
                k \in 1..Len(responses[i].content.items) } :
            i \in { j \in 2..Len(responses) :
                      responses[j].content.kind = "list" } }

Range(s) == { s[i] : i \in 1..Len(s) }

\* ---------------------------------------------------------------- C1
\* C1: once the page plan is computed for a count > 0, pages_needed is
\* ceil(count / page_size) and actual_pages is the minimum of that and the
\* totalPages the probe reported.
C1_PagePlanning ==
    (Planned /\ count > 0) =>
        /\ pages_needed = Ceil(count, page_size)
        /\ actual_pages = Min(Ceil(count, page_size), pagination.totalPages)

\* the documented scenario: 46 pages, page size 50, 75 items -> 2 and 2
C1_Witness ==
    /\ Planned
    /\ count = DemoCount /\ page_size = DemoPageSize
    /\ pagination.totalPages = DemoTotalPages
    /\ pages_needed = 2 /\ actual_pages = 2

\* ---------------------------------------------------------------- C2
\* C2 (as claimed): every returned result has len(content) = min(count,
\* totalFetched) and actual = min(requested, totalFetched), for every count.
C2_LengthForEveryCount ==
    Done =>
        /\ Len(result[1].content) = Min(count, result[1].totalFetched)
        /\ result[1].actual = Min(result[1].requested, result[1].totalFetched)

\* C2 (amended): the two equalities hold for every returned result with
\* count >= 0; for count < 0 the result is empty (length, actual and
\* totalFetched are all 0).
C2_LengthForNonNegativeCount ==
    Done =>
        /\ result[1].requested = count
        /\ count >= 0 =>
             /\ Len(result[1].content) = Min(count, result[1].totalFetched)
             /\ result[1].actual = Min(result[1].requested,
                                      result[1].totalFetched)
        /\ count < 0 =>
             /\ Len(result[1].content) = 0
             /\ result[1].actual = 0
             /\ result[1].totalFetched = 0

\* the source yields fewer items than requested on its only page, and other
\* runs trim: here the short-source case
C2_Witness ==
    /\ Done
    /\ count > 0
    /\ Len(results) = 1
    /\ result[1].totalFetched > 0
    /\ result[1].totalFetched < count
    /\ result[1].actual = result[1].totalFetched

\* ---------------------------------------------------------------- C3
\* C3: the returned content is the first `count` items, in fetch order, of
\* the content arrays of the fetched pages: every returned item comes from a
\* content page (never from the probe), items appear in strictly increasing
\* fetch order (no reordering, no duplicate), no fetched item that precedes a
\* returned item is missing, and the length is min(count, number fetched)
\* (0 for a negative count).
C3_PrefixOrderPreserved ==
    Done =>
        LET c == result[1].content
        IN /\ Range(c) \subseteq FetchedItems
           /\ \A i \in 1..Len(c) : c[i][1] >= 1
           /\ \A i, j \in 1..Len(c) : i < j => Before(c[i], c[j])
           /\ \A x \in FetchedItems : \A i \in 1..Len(c) :
                 Before(x, c[i]) => x \in Range(c)
           /\ Len(c) = Min(Max(count, 0), Cardinality(FetchedItems))

\* two pages contributed and the concatenation was cut inside the second
C3_Witness ==
    /\ Done
    /\ Len(results) >= 2
    /\ count > 0
    /\ result[1].totalFetched > count
    /\ \E i \in 1..Len(result[1].content) : result[1].content[i][1] = 2
    /\ \E x \in FetchedItems : x \notin Range(result[1].content)

\* ---------------------------------------------------------------- C4
\* C4: a content page whose body reports success=false is the last exchange
\* of the call: no later request is issued, no result is produced, and the
\* call fails with the error that carries that page's number and its error
\* message ('Unknown error' when the body has none).
C4_FailedPageAborts ==
    /\ \A i \in 2..Len(responses) :
         ~responses[i].success =>
            /\ i = Len(responses)
            /\ Len(requests) = i
            /\ result = <<>>
            /\ \/ pc = "page_check"
               \/ /\ Failed
                  /\ error = <<[kind |-> "Exception",
                                page |-> requests[i].page,
                                msg |-> IF responses[i].error = NoError
                                        THEN "Unknown error"
                                        ELSE responses[i].error]>>
    /\ Failed => result = <<>>
    /\ Done => error = <<>>

\* page 2 of 3 planned pages fails with "server error"; page 3 is not asked
C4_Witness ==
    /\ Failed
    /\ actual_pages = 3
    /\ error = <<[kind |-> "Exception", page |-> 2, msg |-> "server error"]>>
    /\ Len(requests) = 3
    /\ Len(results) = 1
    /\ result = <<>>

\* ---------------------------------------------------------------- C5
\* C5 (as claimed): a content page with success=true whose content is not a
\* list never makes the call fail, with or without a progress callback.
C5_MalformedContentSkipped ==
    \A i \in 2..Len(responses) :
        (responses[i].success /\ responses[i].content.kind # "list") =>
            ~(Failed /\ i = Len(responses) /\ Len(requests) = i
                     /\ error[1].kind = "TypeError")

\* ---------------------------------------------------------------- C6
\* C6 (as claimed): with a progress callback, every content page that
\* fetch_content_page returned with success=true has, once it is processed,
\* exactly one callback invocation (page, actual_pages, items in the page);
\* pages with success=false have none; invocations are in increasing page
\* order and precede the next request.
C6_ProgressPerSuccessfulPage ==
    on_progress =>
        /\ \A i \in 2..Len(responses) :
             LET b == responses[i]
                 p == requests[i].page
                 calls == { j \in 1..Len(progress) : progress[j][1] = p }
                 handled == i < Len(responses)
                            \/ pc \in {"loop", "page_wait", "done", "failed"}
             IN IF b.success /\ ~FetchPageRaises(b)
                THEN handled =>
                        /\ Cardinality(calls) = 1
                        /\ \A j \in calls :
                              progress[j] = <<p, actual_pages,
                                              ContentLen(b.content)>>
                ELSE calls = {}
        /\ \A i, j \in 1..Len(progress) :
              i < j => progress[i][1] < progress[j][1]
        /\ pc = "page_wait" => Len(progress) = Len(requests) - 2

\* ---------------------------------------------------------------- C7
\* C7 (as claimed): for count <= 0 the plan has pages_needed = 0, no content
\* page is requested and the returned aggregation is empty.
C7_NonPositiveCountPlansZero ==
    (Planned /\ count <= 0) =>
        /\ pages_needed = 0
        /\ Len(requests) = 1
        /\ Done => /\ result[1].content = <<>>
                   /\ result[1].pagesFetched = 0

\* ---------------------------------------------------------------- C8
\* C8: when the probe reports totalPages = 0 the call requests no content
\* page, does not fail, and its result has empty content, actual = 0 and
\* pagesFetched = 0.
C8_EmptySource ==
    (Planned /\ pagination.totalPages = 0) =>
        /\ Len(requests) = 1
        /\ ~Failed
        /\ Done => /\ result[1].content = <<>>
                   /\ result[1].actual = 0
                   /\ result[1].pagesFetched = 0

\* the probe explicitly reported zero pages and a positive count was asked
C8_Witness ==
    /\ Done
    /\ count > 0
    /\ responses[1].pagination.present
    /\ responses[1].pagination.totalPages = 0
    /\ result[1].actual = 0
    /\ result[1].pagesFetched = 0

\* ---------------------------------------------------------------- C9
\* C9 (as claimed): the requests of a call are the probe (page 1, limit 1)
\* followed by pages 1, 2, ... with limit page_size, each once, each issued
\* after the previous one returned, none above the probe's totalPages; a
\* returned result has pagesFetched = actual_pages.
C9_RequestSequence ==
    /\ pc # "start" => Len(requests) >= 1
    /\ Len(requests) >= 1 =>
          requests[1] = [page |-> ProbePage, limit |-> ProbeLimit]
    /\ \A i \in 2..Len(requests) :
          /\ requests[i] = [page |-> i - 1, limit |-> page_size]
          /\ i - 1 <= pagination.totalPages
    /\ Len(responses) <= Len(requests)
    /\ Len(requests) <= Len(responses) + 1
    /\ pc \in {"probe_wait", "page_wait"} => Len(requests) = Len(responses) + 1
    /\ Done => result[1].pagesFetched = actual_pages

\* ---------------------------------------------------------------- C10
\* C10: a probe body with success=false and no pagination block yields the
\* pagination (0, 0, false); the call then requests no content page, does not
\* fail and returns an empty result with actual = 0 and pagesFetched = 0.  A
\* failure caused by a success flag always belongs to a content page.
C10_ProbeSuccessNotInspected ==
    /\ (Len(responses) >= 1 /\ ~responses[1].success
          /\ ~responses[1].pagination.present) =>
           /\ pagination = ZeroInfo
           /\ Len(requests) = 1
           /\ ~Failed
           /\ Done => /\ result[1].content = <<>>
                      /\ result[1].actual = 0
                      /\ result[1].pagesFetched = 0
                      /\ result[1].pagination = ZeroInfo
    /\ (Failed /\ error[1].kind = "Exception") =>
           /\ error[1].page >= 1
           /\ Len(responses) >= 2
           /\ ~responses[Len(responses)].success

\* the probe failed without pagination and the call returned all the same
C10_Witness ==
    /\ Done
    /\ count > 0
    /\ ~responses[1].success
    /\ ~responses[1].pagination.present
    /\ result[1].actual = 0
    /\ result[1].pagesFetched = 0

====
